---- MODULE Spec2Model ----
(***************************************************************************)
(* Model of track_split.py: the CueParser line scanner, its two            *)
(* post-processing passes, convert_timestamp and                           *)
(* replace_invalid_characters.                                             *)
(*                                                                         *)
(* A Python str is a sequence of one-character strings, so that split,     *)
(* rpartition, strip, lower, strptime and strftime are computed on the     *)
(* characters as the interpreter computes them.  A dict is a function      *)
(* whose DOMAIN is the set of keys present.                                *)
(***************************************************************************)
EXTENDS Integers, Sequences, FiniteSets, TLC

(***************************************************************************)
(* str primitives                                                          *)
(***************************************************************************)

\* The whitespace characters of the model's alphabet (str.strip, str.split).
Whitespace == {" ", "\t", "\n"}

\* The characters of strip('\'"').
QuoteChars == {"'", "\""}

RECURSIVE lstrip(_, _)
lstrip(s, chars) ==
    IF s # <<>> /\ Head(s) \in chars THEN lstrip(Tail(s), chars) ELSE s

RECURSIVE rstrip(_, _)
rstrip(s, chars) ==
    IF s # <<>> /\ s[Len(s)] \in chars
    THEN rstrip(SubSeq(s, 1, Len(s) - 1), chars)
    ELSE s

\* str.strip(chars)
strip(s, chars) == rstrip(lstrip(s, chars), chars)

\* Index of the first character of s that is in chars, Len(s) + 1 if none.
FirstIn(s, chars) ==
    IF \E i \in 1..Len(s) : s[i] \in chars
    THEN CHOOSE i \in 1..Len(s) :
            /\ s[i] \in chars
            /\ \A j \in 1..(i - 1) : s[j] \notin chars
    ELSE Len(s) + 1

\* str.split(maxsplit=n): whitespace-separated fields; once n splits are made
\* the remainder is one field, its leading whitespace dropped and its
\* trailing whitespace kept.
RECURSIVE split(_, _)
\* t is the string with its leading whitespace dropped.
SplitStripped(t, maxsplit) ==
    IF t = <<>> THEN <<>>
    ELSE IF maxsplit = 0 THEN <<t>>
    ELSE <<SubSeq(t, 1, FirstIn(t, Whitespace) - 1)>>
            \o split(SubSeq(t, FirstIn(t, Whitespace), Len(t)), maxsplit - 1)

split(s, maxsplit) == SplitStripped(lstrip(s, Whitespace), maxsplit)

\* str.rpartition(' ')[0]: what precedes the last space character, '' if
\* the string holds no space character.
rpartition_head(s) ==
    IF \E i \in 1..Len(s) : s[i] = " "
    THEN LET i == CHOOSE k \in 1..Len(s) :
                     /\ s[k] = " "
                     /\ \A j \in (k + 1)..Len(s) : s[j] # " "
         IN SubSeq(s, 1, i - 1)
    ELSE <<>>

UpperCase ==
    <<"A", "B", "C", "D", "E", "F", "G", "H", "I", "J", "K", "L", "M",
      "N", "O", "P", "Q", "R", "S", "T", "U", "V", "W", "X", "Y", "Z">>

LowerCase ==
    <<"a", "b", "c", "d", "e", "f", "g", "h", "i", "j", "k", "l", "m",
      "n", "o", "p", "q", "r", "s", "t", "u", "v", "w", "x", "y", "z">>

\* str.lower()
lower(s) ==
    [i \in 1..Len(s) |->
        IF \E k \in 1..26 : UpperCase[k] = s[i]
        THEN LowerCase[CHOOSE k \in 1..26 : UpperCase[k] = s[i]]
        ELSE s[i]]

\* ' '.join(fields[1:]) of a three-field split
join_tail(fields) == fields[2] \o <<" ">> \o fields[3]

(***************************************************************************)
(* dict / defaultdict(str)                                                 *)
(***************************************************************************)

EmptyDict == [k \in {} |-> <<>>]

\* target[key] = value
Put(d, key, value) ==
    [k \in (DOMAIN d) \cup {key} |-> IF k = key THEN value ELSE d[k]]

\* target[key] read on a defaultdict(str): '' when absent
Get(d, key) == IF key \in DOMAIN d THEN d[key] ELSE <<>>

\* The state of the defaultdict after target[key] was read: a missing key is
\* inserted with the default ''.
Touch(d, key) == IF key \in DOMAIN d THEN d ELSE Put(d, key, <<>>)

(***************************************************************************)
(* convert_timestamp                                                       *)
(***************************************************************************)

DigitChars == <<"0", "1", "2", "3", "4", "5", "6", "7", "8", "9">>

IsDigits(s) ==
    \A i \in 1..Len(s) : \E d \in 1..10 : DigitChars[d] = s[i]

DigitValue(c) == (CHOOSE d \in 1..10 : DigitChars[d] = c) - 1

RECURSIVE NumberOf(_)
NumberOf(s) ==
    IF s = <<>> THEN 0
    ELSE 10 * NumberOf(SubSeq(s, 1, Len(s) - 1)) + DigitValue(s[Len(s)])

RECURSIVE Pow10(_)
Pow10(n) == IF n = 0 THEN 1 ELSE 10 * Pow10(n - 1)

\* The pieces of s between occurrences of the character c.
RECURSIVE PiecesOn(_, _)
PiecesOn(s, c) ==
    LET n == FirstIn(s, {c}) IN
    IF n > Len(s) THEN <<s>>
    ELSE <<SubSeq(s, 1, n - 1)>> \o PiecesOn(SubSeq(s, n + 1, Len(s)), c)

\* A strptime numeric directive: one or two digits, at most `most`.
FieldOk(s, most) == Len(s) \in 1..2 /\ IsDigits(s) /\ NumberOf(s) <= most

\* %f: one to six digits, read as a fraction of a second (right-padded).
FractionOk(s) == Len(s) \in 1..6 /\ IsDigits(s)
Microseconds(s) == NumberOf(s) * Pow10(6 - Len(s))

NoTime == [ok |-> FALSE, sec |-> 0, usec |-> 0]

\* p is the string cut at its colons.
MSfOf(p) ==
    IF Len(p) = 3 /\ FieldOk(p[1], 59) /\ FieldOk(p[2], 59) /\ FractionOk(p[3])
    THEN [ok |-> TRUE,
          sec |-> 60 * NumberOf(p[1]) + NumberOf(p[2]),
          usec |-> Microseconds(p[3])]
    ELSE NoTime

\* datetime.strptime(s, '%M:%S:%f') as [ok, sec, usec] past 1900-01-01 00:00.
\* ok = FALSE stands for ValueError.  %S matches up to 61 but the datetime
\* constructor rejects seconds above 59.
strptime_MSf(s) == MSfOf(PiecesOn(s, ":"))

\* p is the string cut at its colons, q its last piece cut at its dots.
HMSfOf(p, q) ==
    IF /\ Len(q) = 2
       /\ FieldOk(p[1], 23) /\ FieldOk(p[2], 59) /\ FieldOk(q[1], 59)
       /\ FractionOk(q[2])
    THEN [ok |-> TRUE,
          sec |-> 3600 * NumberOf(p[1]) + 60 * NumberOf(p[2]) + NumberOf(q[1]),
          usec |-> Microseconds(q[2])]
    ELSE NoTime

HMSfPieces(p) == IF Len(p) = 3 THEN HMSfOf(p, PiecesOn(p[3], ".")) ELSE NoTime

\* datetime.strptime(s, '%H:%M:%S.%f')
strptime_HMSf(s) == HMSfPieces(PiecesOn(s, ":"))

\* n written with `width` digits, zero-padded (n < 10^width)
RECURSIVE ZeroPad(_, _)
ZeroPad(n, width) ==
    IF width = 0 THEN <<>>
    ELSE ZeroPad(n \div 10, width - 1) \o <<DigitChars[(n % 10) + 1]>>

\* datetime.strftime('%H:%M:%S.%f') of 1900-01-01 00:00 + sec seconds + usec
\* microseconds (usec < 10^6): the date of the datetime is not printed, so
\* the hours are those of the time of day.
strftime_HMSf(sec, usec) ==
    ZeroPad((sec % (24 * 3600)) \div 3600, 2) \o <<":">>
        \o ZeroPad((sec % 3600) \div 60, 2) \o <<":">>
        \o ZeroPad(sec % 60, 2) \o <<".">> \o ZeroPad(usec, 6)

\* original + (diff - base), formatted
Shifted(original, base, diff) ==
    IF original.ok /\ base.ok /\ diff.ok
    THEN [ok |-> TRUE,
          value |-> strftime_HMSf(
              original.sec + (diff.sec - base.sec)
                  + ((original.usec + (diff.usec - base.usec)) \div 1000000),
              (original.usec + (diff.usec - base.usec)) % 1000000)]
    ELSE [ok |-> FALSE, value |-> <<>>]

\* convert_timestamp(timestamp, offset=offset): [ok, value], ok = FALSE
\* standing for the ValueError of strptime.
convert_timestamp(timestamp, offset) ==
    Shifted(strptime_MSf(timestamp),
            strptime_MSf(<<"0", "0", ":", "0", "0", ":", "0", "0">>),
            strptime_HMSf(offset))

(***************************************************************************)
(* CueParser: the tag rules                                                *)
(***************************************************************************)

kw_FILE == <<"F", "I", "L", "E">>
kw_TRACK == <<"T", "R", "A", "C", "K">>
kw_INDEX == <<"I", "N", "D", "E", "X">>
kw_REM == <<"R", "E", "M">>
kw_START == <<"S", "T", "A", "R", "T">>
kw_END == <<"E", "N", "D">>

\* The keys the code itself names.
key_track == <<"t", "r", "a", "c", "k">>
key_start == <<"s", "t", "a", "r", "t">>
key_end == <<"e", "n", "d">>
key_title == <<"t", "i", "t", "l", "e">>
key_performer == <<"p", "e", "r", "f", "o", "r", "m", "e", "r">>
key_tracks == <<"t", "r", "a", "c", "k", "s">>
key_file == <<"f", "i", "l", "e">>

\* fields is line.split(maxsplit=1).
TagFields(target, fields) ==
    IF Len(fields) = 2
    THEN [ok |-> TRUE,
          target |-> Put(target, lower(fields[1]), strip(fields[2], QuoteChars))]
    ELSE [ok |-> FALSE, target |-> target]

\* _parse_tag(target, line): [ok, target] is the return value and the
\* target mapping afterwards.
_parse_tag(target, line) == TagFields(target, split(line, 1))

\* fields is line.split(maxsplit=1).
FileFields(disc, line, fields) ==
    IF Len(fields) = 2 /\ fields[1] = kw_FILE
    THEN _parse_tag(disc, rpartition_head(line))
    ELSE [ok |-> FALSE, target |-> disc]

\* _parse_file_tag(line) on self._disc
_parse_file_tag(disc, line) == FileFields(disc, line, split(line, 1))

\* fields is line.split(maxsplit=2).
CommentFields(target, fields) ==
    IF Len(fields) = 3 /\ fields[1] = kw_REM
    THEN _parse_tag(target, join_tail(fields))
    ELSE [ok |-> FALSE, target |-> target]

\* _parse_comment_tag(target, line)
_parse_comment_tag(target, line) == CommentFields(target, split(line, 2))

\* The list after self._tracks.append(track), track being filled by r.
Appended(tracks, r) == [ok |-> r.ok, tracks |-> Append(tracks, r.target)]

\* fields is line.split(maxsplit=2).
TrackFields(tracks, line, fields) ==
    IF Len(fields) = 3 /\ fields[1] = kw_TRACK
    THEN Appended(tracks, _parse_tag(EmptyDict, rpartition_head(line)))
    ELSE [ok |-> FALSE, tracks |-> tracks]

\* _parse_track_tag(line) on self._tracks: the record is appended before
\* _parse_tag decides the return value.
_parse_track_tag(tracks, line) == TrackFields(tracks, line, split(line, 2))

\* The list after _parse_tag(self._tracks[i], ...) returned r.
Stored(tracks, i, r) ==
    [exc |-> "none", ok |-> r.ok, tracks |-> [tracks EXCEPT ![i] = r.target]]

\* IndexStamp with the primary index stored on the first record of the list
\* (self._tracks[0]) instead of the last.
IndexStamp_first(tracks, number, timestamp) ==
    IF ~timestamp.ok
    THEN [exc |-> "ValueError", ok |-> FALSE, tracks |-> tracks]
    ELSE IF number = <<"0", "1">>
    THEN IF Len(tracks) = 0
         THEN [exc |-> "IndexError", ok |-> FALSE, tracks |-> tracks]
         ELSE Stored(tracks, 1,
                     _parse_tag(tracks[1],
                                kw_START \o <<" ">> \o timestamp.value))
    ELSE IF Len(tracks) - 2 >= 0
    THEN Stored(tracks, Len(tracks) - 1,
                _parse_tag(tracks[Len(tracks) - 1],
                           kw_END \o <<" ">> \o timestamp.value))
    ELSE [exc |-> "none", ok |-> FALSE, tracks |-> tracks]

\* IndexStamp with the other index numbers stored as END on the last record
\* of the list (self._tracks[-1]) instead of the one before it.
IndexStamp_last(tracks, number, timestamp) ==
    IF ~timestamp.ok
    THEN [exc |-> "ValueError", ok |-> FALSE, tracks |-> tracks]
    ELSE IF number = <<"0", "1">>
    THEN IF Len(tracks) = 0
         THEN [exc |-> "IndexError", ok |-> FALSE, tracks |-> tracks]
         ELSE Stored(tracks, Len(tracks),
                     _parse_tag(tracks[Len(tracks)],
                                kw_START \o <<" ">> \o timestamp.value))
    ELSE IF Len(tracks) - 2 >= 0
    THEN Stored(tracks, Len(tracks),
                _parse_tag(tracks[Len(tracks)],
                           kw_END \o <<" ">> \o timestamp.value))
    ELSE [exc |-> "none", ok |-> FALSE, tracks |-> tracks]

\* The branches of _parse_index_tag on the index number, timestamp being
\* what convert_timestamp returned.
IndexStamp(tracks, number, timestamp) ==
    IF ~timestamp.ok
    THEN [exc |-> "ValueError", ok |-> FALSE, tracks |-> tracks]
    ELSE IF number = <<"0", "1">>
    THEN IF Len(tracks) = 0
         THEN [exc |-> "IndexError", ok |-> FALSE, tracks |-> tracks]
         ELSE Stored(tracks, Len(tracks),
                     _parse_tag(tracks[Len(tracks)],
                                kw_START \o <<" ">> \o timestamp.value))
    ELSE IF Len(tracks) - 2 >= 0
    THEN Stored(tracks, Len(tracks) - 1,
                _parse_tag(tracks[Len(tracks) - 1],
                           kw_END \o <<" ">> \o timestamp.value))
    ELSE [exc |-> "none", ok |-> FALSE, tracks |-> tracks]

\* fields is line.split(maxsplit=2).
IndexFields(tracks, fields, offset) ==
    IF Len(fields) = 3 /\ fields[1] = kw_INDEX
    THEN IndexStamp(tracks, fields[2], convert_timestamp(fields[3], offset))
    ELSE [exc |-> "none", ok |-> FALSE, tracks |-> tracks]

\* _parse_index_tag(line) on self._tracks, with self.offset.  exc names the
\* exception that leaves the method, "none" when it returns.
_parse_index_tag(tracks, line, offset) ==
    IndexFields(tracks, split(line, 2), offset)

\* The loop body of _parse_disc once _parse_file_tag returned f and
\* _parse_comment_tag would return c.
DiscRules(disc, line, f, c) ==
    IF f.ok THEN [file |-> TRUE, disc |-> f.target]
    ELSE IF c.ok THEN [file |-> FALSE, disc |-> c.target]
    ELSE [file |-> FALSE, disc |-> _parse_tag(disc, line).target]

\* One non-empty line in the loop of _parse_disc: [file, disc], file = TRUE
\* when _parse_file_tag accepted the line and the loop ends.
_parse_disc(disc, line) ==
    DiscRules(disc, line, _parse_file_tag(disc, line),
              _parse_comment_tag(disc, line))

\* The loop body of _parse_track on the last record, c being what
\* _parse_comment_tag(self._tracks[-1], line) returned.
LastRules(tracks, line, c) ==
    IF c.ok
    THEN [exc |-> "none", tracks |-> [tracks EXCEPT ![Len(tracks)] = c.target]]
    ELSE [exc |-> "none",
          tracks |-> [tracks EXCEPT
                         ![Len(tracks)] =
                             _parse_tag(tracks[Len(tracks)], line).target]]

\* The loop body of _parse_track once _parse_index_tag returned x (or
\* raised).  self._tracks[-1] is evaluated as the argument of
\* _parse_comment_tag and raises IndexError on an empty list.
BodyRules(tracks, line, x) ==
    IF x.exc # "none" \/ x.ok THEN [exc |-> x.exc, tracks |-> x.tracks]
    ELSE IF Len(tracks) = 0 THEN [exc |-> "IndexError", tracks |-> tracks]
    ELSE LastRules(tracks, line, _parse_comment_tag(tracks[Len(tracks)], line))

\* The loop condition and body of _parse_track once _parse_track_tag
\* returned t.
TrackRules(t, line, offset) ==
    IF t.ok THEN [exc |-> "none", tracks |-> t.tracks]
    ELSE BodyRules(t.tracks, line, _parse_index_tag(t.tracks, line, offset))

\* One non-empty line in the loop of _parse_track: [exc, tracks].
_parse_track(tracks, line, offset) ==
    TrackRules(_parse_track_tag(tracks, line), line, offset)

(***************************************************************************)
(* CueParser: the post-processing passes                                   *)
(***************************************************************************)

\* The loop of _complete_endings from index i (1-based) on.  Reading
\* self._tracks[i + 1]['start'] inserts the default '' when it is missing.
RECURSIVE EndingsFrom(_, _)
EndingsFrom(tracks, i) ==
    IF i > Len(tracks) - 1 THEN tracks
    ELSE IF key_end \in DOMAIN tracks[i] THEN EndingsFrom(tracks, i + 1)
    ELSE EndingsFrom(
            [tracks EXCEPT
                ![i] = Put(@, key_end, Get(tracks[i + 1], key_start)),
                ![i + 1] = Touch(@, key_start)],
            i + 1)

\* _complete_endings with the loop starting one record late.
_complete_endings_skip_first(tracks) ==
    IF Len(tracks) > 1 THEN EndingsFrom(tracks, 2) ELSE tracks

\* _complete_endings with the loop running through the last record, which
\* takes its own `start` for want of a following one.
_complete_endings_through_last(tracks) ==
    IF Len(tracks) > 1
    THEN [EndingsFrom(tracks, 1) EXCEPT
             ![Len(tracks)] = IF key_end \in DOMAIN @ THEN @
                              ELSE Put(@, key_end, Get(@, key_start))]
    ELSE tracks

\* _complete_endings without the test 'end' not in self._tracks[i].
_complete_endings_overwrite(tracks) ==
    [i \in 1..Len(tracks) |->
        IF i < Len(tracks)
        THEN Put(tracks[i], key_end, Get(tracks[i + 1], key_start))
        ELSE Touch(tracks[i], key_start)]

_complete_endings(tracks) ==
    IF Len(tracks) > 1 THEN EndingsFrom(tracks, 1) ELSE tracks

\* str(n) for n >= 0
RECURSIVE str_int(_)
str_int(n) ==
    IF n < 10 THEN <<DigitChars[n + 1]>>
    ELSE str_int(n \div 10) \o <<DigitChars[(n % 10) + 1]>>

\* f'{title} ({performer} ver.)'
PerformerVersion(title, performer) ==
    title \o <<" ", "(">> \o performer \o <<" ", "v", "e", "r", ".", ")">>

\* f'{title} (ver. {n})'
NumberedVersion(title, n) ==
    title \o <<" ", "(", "v", "e", "r", ".", " ">> \o str_int(n) \o <<")">>

\* titles[title] += 1 on a defaultdict(int)
Bump(titles, title) ==
    [k \in (DOMAIN titles) \cup {title} |->
        IF k = title
        THEN (IF title \in DOMAIN titles THEN titles[title] ELSE 0) + 1
        ELSE titles[k]]

\* The loop of _get_unique_titles from index i on, titles being the counts
\* so far.  The counter that is bumped is that of the local `title`, which
\* the performer branch has rebound to the rewritten title.
RECURSIVE TitlesFrom(_, _, _)
TitlesFrom(tracks, i, titles) ==
    IF i > Len(tracks) THEN tracks
    ELSE LET track == Touch(tracks[i], key_title)
             title == track[key_title]
         IN
         IF title \in DOMAIN titles
         THEN IF key_performer \in DOMAIN track
              THEN LET renamed == PerformerVersion(title, track[key_performer])
                   IN TitlesFrom(
                         [tracks EXCEPT ![i] = Put(track, key_title, renamed)],
                         i + 1, Bump(titles, renamed))
              ELSE TitlesFrom(
                      [tracks EXCEPT
                          ![i] = Put(track, key_title,
                                     NumberedVersion(title, titles[title]))],
                      i + 1, Bump(titles, title))
         ELSE TitlesFrom([tracks EXCEPT ![i] = track], i + 1,
                         Bump(titles, title))

_get_unique_titles(tracks) == TitlesFrom(tracks, 1, [k \in {} |-> 0])

(***************************************************************************)
(* CueParser: info() and _clear()                                          *)
(***************************************************************************)

\* self._info = None
NoInfo == [none |-> TRUE, disc |-> EmptyDict, tracks |-> <<>>]

\* The mapping info() builds: a copy of the disc record whose 'tracks' entry
\* is the list of track copies.
BuildInfo(disc, tracks) ==
    [none |-> FALSE,
     disc |-> [k \in (DOMAIN disc) \ {key_tracks} |-> disc[k]],
     tracks |-> tracks]

\* info(): [ret, info] is the value returned and self._info afterwards.
info(disc, tracks, cached) ==
    LET built == IF cached.none THEN BuildInfo(disc, tracks) ELSE cached
    IN [ret |-> built, info |-> built]

\* _clear()
_clear == [disc |-> EmptyDict, tracks |-> <<>>, info |-> NoInfo]

(***************************************************************************)
(* The input documents                                                     *)
(***************************************************************************)

\* Lines of a sheet, without their line terminator.
line_file == kw_FILE \o <<" ", "\"", "a", "\"", " ", "W">>
line_track1 == kw_TRACK \o <<" ", "0", "1", " ", "A">>
line_track2 == kw_TRACK \o <<" ", "0", "2", " ", "A">>
line_index01 ==
    kw_INDEX \o <<" ", "0", "1", " ", "0", "0", ":", "0", "1", ":", "0", "0">>
line_index00 ==
    kw_INDEX \o <<" ", "0", "0", " ", "0", "0", ":", "0", "2", ":", "0", "0">>
line_rem_end == kw_REM \o <<" ">> \o kw_END \o <<" ", "'", "x", "'">>
line_start == kw_START \o <<" ", "y">>
line_junk == <<"j", "u", "n", "k">>
line_blank == <<>>

\* Family "sheet": any document of at most MaxLines of these lines, parsed
\* once by a new parser.
SheetLines ==
    {line_file, line_track1, line_track2, line_index01, line_index00,
     line_rem_end, line_start, line_junk, line_blank}

MaxLines == 5

\* Family "reuse": a parser that parses one document after the other, each
\* of at most MaxReuseLines of the lines of SheetLines.
MaxReuseLines == 3

kw_TITLE == <<"T", "I", "T", "L", "E">>
kw_PERFORMER == <<"P", "E", "R", "F", "O", "R", "M", "E", "R">>

line_title == kw_TITLE \o <<" ", "T">>
line_performer == kw_PERFORMER \o <<" ", "P">>
line_title_ver ==
    kw_TITLE \o <<" ", "\"", "T", " ", "(", "P", " ", "v", "e", "r", ".", ")", "\"">>

\* Family "titles": line_file, then at most MaxTitleLines of these lines.
TitleLines == {line_track1, line_title, line_performer, line_title_ver}

MaxTitleLines == 8

line_title_intro == kw_TITLE \o <<" ", "\"", "I", "n", "t", "r", "o", "\"">>
line_title_song == kw_TITLE \o <<" ", "\"", "S", "o", "n", "g", "\"">>
line_index01_0 ==
    kw_INDEX \o <<" ", "0", "1", " ", "0", "0", ":", "0", "0", ":", "0", "0">>
line_index00_315 ==
    kw_INDEX \o <<" ", "0", "0", " ", "0", "3", ":", "1", "5", ":", "0", "0">>
line_index01_317 ==
    kw_INDEX \o <<" ", "0", "1", " ", "0", "3", ":", "1", "7", ":", "0", "0">>

\* Family "scenario": at most MaxHeaderLines of HeaderLines, line_file, then
\* the track section ScenarioLines.
ScenarioLines ==
    <<line_track1, line_title_intro, line_index01_0,
      line_track2, line_title_song, line_index00_315, line_index01_317>>

HeaderLines == {line_rem_end, line_title, line_performer, line_junk}

MaxHeaderLines == 3

\* Sheets whose FILE lines carry a format token or none.
line_file_bare == <<"F", "I", "L", "E", " ", "x">>
FileLines == {line_file_bare, line_file, line_track1, line_start, line_index01}
MaxFileLines == 4

\* Sheets whose tracks carry pregap and other secondary indexes.
line_index02 ==
    <<"I", "N", "D", "E", "X", " ", "0", "2", " ", "0", "0", ":", "0", "3", ":", "0", "0">>
PregapLines ==
    {line_track1, line_index00, line_index02, line_index01, line_rem_end}
MaxPregapLines == 6

offset_zero == <<"0", "0", ":", "0", "0", ":", "0", "0", ".", "0", "0">>
offset_hour == <<"0", "1", ":", "0", "0", ":", "0", "0", ".", "0", "0">>

\* readline() of a line of the document
Raw(l) == l \o <<"\n">>

\* Whole streams, given before parse is called.
StreamLines == {line_file, line_track1, line_start, line_blank}
MaxStreamLines == 4
Streams ==
    UNION {[1..n -> {Raw(l) : l \in StreamLines}] : n \in 0..MaxStreamLines}

\* The number of lines of d up to and including the first line_file, 0 if
\* d holds none.
FilePosition(d) ==
    IF \E i \in 1..Len(d) : d[i] = Raw(line_file)
    THEN CHOOSE i \in 1..Len(d) :
            /\ d[i] = Raw(line_file)
            /\ \A k \in 1..(i - 1) : d[k] # Raw(line_file)
    ELSE 0

\* The lines that may follow the lines d in a document of family f.
FamilyLines(f, d) ==
    CASE f = "sheet" -> IF Len(d) < MaxLines THEN SheetLines ELSE {}
      [] f = "reuse" -> IF Len(d) < MaxReuseLines THEN SheetLines ELSE {}
      [] f = "titles" ->
            IF d = <<>> THEN {line_file}
            ELSE IF Len(d) <= MaxTitleLines THEN TitleLines ELSE {}
      [] f = "scenario" ->
            IF FilePosition(d) = 0
            THEN {line_file}
                    \cup (IF Len(d) < MaxHeaderLines THEN HeaderLines ELSE {})
            ELSE IF Len(d) - FilePosition(d) < Len(ScenarioLines)
            THEN {ScenarioLines[Len(d) - FilePosition(d) + 1]}
            ELSE {}
      [] f = "file" -> IF Len(d) < MaxFileLines THEN FileLines ELSE {}
      [] f = "pregap" ->
            IF d = <<>> THEN {line_file}
            ELSE IF Len(d) <= MaxPregapLines THEN PregapLines ELSE {}
      [] OTHER -> {}

(***************************************************************************)
(* The parser object and its invocations                                   *)
(***************************************************************************)

VARIABLES
    _disc,      \* self._disc
    _tracks,    \* self._tracks
    _info,      \* self._info
    offset,     \* self.offset
    pc,         \* where parse() stands; "idle" outside an invocation
    result,     \* how the last invocation ended: "none" (never called or
                \* running), "returned", or the exception that left it
    doc,        \* the lines read so far from the document of this invocation
    eof,        \* readline() has returned '' at the end of the document
    family,     \* the family of documents this behaviour draws from
    body,       \* history: for each record of _tracks, the line that
                \* appended it followed by the lines the loop of _parse_track
                \* handled while it was the last record
    prior,      \* history: what the parser had been through when this
                \* invocation began: "new", "parsed", "parsed_info"
    probe,      \* the input of a run on its own: the arguments and results of a
                \* function applied alone, or the whole stream parse reads
    reads       \* the number of readline() calls of the current parse

vars ==
    <<_disc, _tracks, _info, offset, pc, result, doc, eof, family, body,
      prior, probe, reads>>

NoProbe == [state |-> "none"]

\* What doc.readline() may return next: '' at the end of the document (a
\* document may end after any line), else the next line with its terminator.
NextLines ==
    IF eof THEN {<<>>}
    ELSE IF family = "stream"
    THEN IF Len(doc) < Len(probe.lines)
         THEN {probe.lines[Len(doc) + 1]} ELSE {<<>>}
    ELSE {<<>>} \cup {Raw(l) : l \in FamilyLines(family, doc)}

\* The stream after readline() returned raw.
Consume(raw) ==
    /\ doc' = IF raw = <<>> THEN doc ELSE Append(doc, raw)
    /\ eof' = (raw = <<>>)
    /\ reads' = reads + 1

\* _readline(doc)
_readline(raw) == strip(raw, Whitespace)

\* CueParser(offset) for a behaviour of family f
Constructed(f, off) ==
    /\ _disc = _clear.disc
    /\ _tracks = _clear.tracks
    /\ _info = _clear.info
    /\ offset = off
    /\ pc = "idle"
    /\ result = "none"
    /\ doc = <<>>
    /\ eof = FALSE
    /\ family = f
    /\ body = <<>>
    /\ prior = "new"
    /\ probe = NoProbe
    /\ reads = 0

Init == Constructed("sheet", offset_hour)

\* Parse with _clear() leaving self._info as it is.
Parse_keeps_info ==
    /\ pc = "idle"
    /\ result = "none" \/ family = "reuse"
    /\ _disc' = _clear.disc
    /\ _tracks' = _clear.tracks
    /\ pc' = "disc"
    /\ result' = "none"
    /\ doc' = <<>>
    /\ eof' = FALSE
    /\ body' = <<>>
    /\ prior' = IF result = "none" THEN "new"
                ELSE IF _info.none THEN "parsed" ELSE "parsed_info"
    /\ reads' = 0
    /\ UNCHANGED <<_info, offset, family, probe>>

\* parse(doc) is called with a new document: self._clear().  Only in family
\* "reuse" is a parser given a second document.
Parse ==
    /\ pc = "idle"
    /\ result = "none" \/ family = "reuse"
    /\ _disc' = _clear.disc
    /\ _tracks' = _clear.tracks
    /\ _info' = _clear.info
    /\ pc' = "disc"
    /\ result' = "none"
    /\ doc' = <<>>
    /\ eof' = FALSE
    /\ body' = <<>>
    /\ prior' = IF result = "none" THEN "new"
                ELSE IF _info.none THEN "parsed" ELSE "parsed_info"
    /\ reads' = 0
    /\ UNCHANGED <<offset, family, probe>>

\* The loop of _parse_disc after readline() returned raw and the body, run
\* on a non-empty line, gave r.
DiscStep(raw, line, r) ==
    /\ Consume(raw)
    /\ _disc' = IF line = <<>> THEN _disc ELSE r.disc
    /\ pc' = IF line = <<>> \/ r.file THEN "first" ELSE "disc"

\* One readline of _parse_disc and the loop body on the line read.
ReadDisc ==
    /\ pc = "disc"
    /\ \E raw \in NextLines :
          DiscStep(raw, _readline(raw), _parse_disc(_disc, _readline(raw)))
    /\ UNCHANGED <<_tracks, _info, offset, result, family, body, prior, probe>>

\* body after `line` took the list of records from `before` to `after`.
Recorded(line, before, after) ==
    IF Len(after) > Len(before) THEN Append(body, <<line>>)
    ELSE IF body # <<>> THEN [body EXCEPT ![Len(body)] = Append(@, line)]
    ELSE body

\* FirstStep with the loop of parse() entered before its test: the line
\* read at line 40 is not tested for emptiness.
FirstStep_loops(raw, line, t) ==
    /\ Consume(raw)
    /\ _tracks' = t.tracks
    /\ body' = IF Len(t.tracks) > Len(_tracks)
               THEN Append(body, <<line>>) ELSE body
    /\ pc' = "track"

FirstStep(raw, line, t) ==
    /\ Consume(raw)
    /\ _tracks' = t.tracks
    /\ body' = IF Len(t.tracks) > Len(_tracks)
               THEN Append(body, <<line>>) ELSE body
    /\ pc' = IF line = <<>> THEN "endings" ELSE "track"

\* parse(): line = self._readline(doc); self._parse_track_tag(line)
ReadFirst ==
    /\ pc = "first"
    /\ \E raw \in NextLines :
          FirstStep(raw, _readline(raw),
                    _parse_track_tag(_tracks, _readline(raw)))
    /\ UNCHANGED <<_disc, _info, offset, result, family, prior, probe>>

\* The loop of _parse_track after readline() returned raw and the body, run
\* on a non-empty line, gave r; an exception leaves parse() with the records
\* as they then are.
TrackStep(raw, line, r) ==
    /\ Consume(raw)
    /\ _tracks' = IF line = <<>> THEN _tracks ELSE r.tracks
    /\ body' = IF line = <<>> THEN body ELSE Recorded(line, _tracks, r.tracks)
    /\ pc' = IF line = <<>> THEN "endings"
             ELSE IF r.exc # "none" THEN "idle" ELSE "track"
    /\ result' = IF line # <<>> /\ r.exc # "none" THEN r.exc ELSE result

\* One readline of _parse_track and the loop body on the line read.
ReadTrack ==
    /\ pc = "track"
    /\ \E raw \in NextLines :
          TrackStep(raw, _readline(raw),
                    _parse_track(_tracks, _readline(raw), offset))
    /\ UNCHANGED <<_disc, _info, offset, family, prior, probe>>

\* parse(): self._complete_endings()
CompleteEndings ==
    /\ pc = "endings"
    /\ _tracks' = _complete_endings(_tracks)
    /\ pc' = "titles"
    /\ UNCHANGED <<_disc, _info, offset, result, doc, eof, family, body,
                   prior, probe, reads>>

\* parse(): self._get_unique_titles(), and parse returns
GetUniqueTitles ==
    /\ pc = "titles"
    /\ _tracks' = _get_unique_titles(_tracks)
    /\ pc' = "idle"
    /\ result' = "returned"
    /\ UNCHANGED <<_disc, _info, offset, doc, eof, family, body, prior, probe,
                   reads>>

\* info() is called outside an invocation of parse
Info ==
    /\ pc = "idle"
    /\ _info' = info(_disc, _tracks, _info).info
    /\ UNCHANGED <<_disc, _tracks, offset, pc, result, doc, eof, family,
                   body, prior, probe, reads>>

Next ==
    \/ Parse
    \/ ReadDisc
    \/ ReadFirst
    \/ ReadTrack
    \/ CompleteEndings
    \/ GetUniqueTitles
    \/ Info

\* One document, parsed by a new parser.
Spec == Init /\ [][Next]_vars

\* A parser used for one document after the other.
InitReuse == \E off \in {offset_zero, offset_hour} : Constructed("reuse", off)
SpecReuse == InitReuse /\ [][Next]_vars

\* Sheets whose tracks carry titles and performers.
InitTitles == Constructed("titles", offset_zero)
SpecTitles == InitTitles /\ [][Next]_vars

\* Sheets with FILE lines of two and of three tokens.
InitFile == Constructed("file", offset_zero)
SpecFile == InitFile /\ [][Next]_vars

\* Sheets with secondary indexes in the bodies of their tracks.
InitPregap == Constructed("pregap", offset_hour)
SpecPregap == InitPregap /\ [][Next]_vars

\* A parser given a whole finite stream; parse, once called, keeps running.
InitStream ==
    /\ _disc = _clear.disc
    /\ _tracks = _clear.tracks
    /\ _info = _clear.info
    /\ offset = offset_zero
    /\ pc = "idle"
    /\ result = "none"
    /\ doc = <<>>
    /\ eof = FALSE
    /\ family = "stream"
    /\ body = <<>>
    /\ prior = "new"
    /\ reads = 0
    /\ \E lines \in Streams : probe = [state |-> "stream", lines |-> lines]

\* A step of a running parse: it goes on to another part of parse or reads
\* a line.
ParseRuns ==
    /\ pc # "idle"
    /\ pc' \in {"idle", "disc", "first", "track", "endings", "titles"}
    /\ reads' \in {reads, reads + 1}
    /\ pc' # pc \/ reads' # reads

SpecStream == InitStream /\ [][Next]_vars /\ WF_<<pc, reads>>(ParseRuns)

\* The two-track sheet of the concrete scenario, under any header.
InitScenario == Constructed("scenario", offset_zero)
SpecScenario == InitScenario /\ [][Next]_vars

(***************************************************************************)
(* convert_timestamp on its own: a timestamp and two offsets are drawn,    *)
(* and the function is applied to the timestamp under each offset.         *)
(***************************************************************************)

\* The inputs: timestamps mm:ss:ff and offsets hh:mm:ss.ff
ProbeStampMinutes == {0, 45, 59}
ProbeStampSeconds == {0, 59}
ProbeStampFractions == {<<"0", "0">>, <<"5", "0">>}
ProbeOffsetHours == {0, 1, 23}
ProbeOffsetMinutes == {0, 30}

StampOf(m, sc, f) ==
    ZeroPad(m, 2) \o <<":">> \o ZeroPad(sc, 2) \o <<":">> \o f
OffsetOf(h, m) ==
    ZeroPad(h, 2) \o <<":">> \o ZeroPad(m, 2) \o <<":", "0", "0", ".", "0", "0">>

ProbeStamps ==
    {StampOf(m, sc, f) : m \in ProbeStampMinutes, sc \in ProbeStampSeconds,
                         f \in ProbeStampFractions}
ProbeOffsets == {OffsetOf(h, m) : h \in ProbeOffsetHours, m \in ProbeOffsetMinutes}

\* time a is earlier than time b
Earlier(a, b) == a.sec < b.sec \/ (a.sec = b.sec /\ a.usec < b.usec)

InitTime ==
    /\ _disc = _clear.disc
    /\ _tracks = _clear.tracks
    /\ _info = _clear.info
    /\ offset = offset_zero
    /\ pc = "time"
    /\ result = "none"
    /\ doc = <<>>
    /\ eof = FALSE
    /\ family = "time"
    /\ body = <<>>
    /\ prior = "new"
    /\ reads = 0
    /\ \E t \in ProbeStamps, o1, o2 \in ProbeOffsets :
          /\ Earlier(strptime_HMSf(o1), strptime_HMSf(o2))
          /\ probe = [state |-> "drawn", timestamp |-> t, low |-> o1, high |-> o2]

\* convert_timestamp(t, offset=o1) and convert_timestamp(t, offset=o2)
Convert ==
    /\ pc = "time"
    /\ probe.state = "drawn"
    /\ probe' = [state |-> "converted",
                 timestamp |-> probe.timestamp,
                 low |-> probe.low,
                 high |-> probe.high,
                 out_low |-> convert_timestamp(probe.timestamp, probe.low),
                 out_high |-> convert_timestamp(probe.timestamp, probe.high)]
    /\ UNCHANGED <<_disc, _tracks, _info, offset, pc, result, doc, eof,
                   family, body, prior, reads>>

NextTime == Convert

SpecTime == InitTime /\ [][NextTime]_vars

(***************************************************************************)
(* replace_invalid_characters.  A character outside ASCII is written as    *)
(* the name of its code point.                                             *)
(***************************************************************************)

\* INVALID_CHARACTERS with '>' replaced by '<', a key the loop has passed.
INVALID_CHARACTERS_reserved ==
    << <<"<", "U+2039">>, <<">", "<">>, <<":", "U+FF1A">>,
       <<"\"", "'">>, <<"/", "U+FF0F">>, <<"\\", "U+FF3C">>,
       <<"|", "U+2223">>, <<"?", "U+FF1F">>, <<"*", "U+FF0A">> >>

\* The dict INVALID_CHARACTERS as its items, in the order of iteration.
INVALID_CHARACTERS ==
    << <<"<", "U+2039">>, <<">", "U+203A">>, <<":", "U+FF1A">>,
       <<"\"", "'">>, <<"/", "U+FF0F">>, <<"\\", "U+FF3C">>,
       <<"|", "U+2223">>, <<"?", "U+FF1F">>, <<"*", "U+FF0A">> >>

\* title.replace(character, by) for a one-character `character`
replace(title, character, by) ==
    [i \in 1..Len(title) |-> IF title[i] = character THEN by ELSE title[i]]

\* The loop of replace_invalid_characters from the k-th key on.
RECURSIVE ReplacedFrom(_, _)
ReplacedFrom(title, k) ==
    IF k > Len(INVALID_CHARACTERS) THEN title
    ELSE ReplacedFrom(replace(title, INVALID_CHARACTERS[k][1],
                              INVALID_CHARACTERS[k][2]), k + 1)

replace_invalid_characters(title) == strip(ReplacedFrom(title, 1), Whitespace)

\* The titles: strings over a few characters, reserved ones, substitutes and
\* whitespace among them.
TitleChars == {" ", "a", "<", ">", "\"", "'", "U+2039"}
MaxTitleLen == 3
Titles == UNION {[1..n -> TitleChars] : n \in 0..MaxTitleLen}

InitSanitize ==
    /\ _disc = _clear.disc
    /\ _tracks = _clear.tracks
    /\ _info = _clear.info
    /\ offset = offset_zero
    /\ pc = "sanitize"
    /\ result = "none"
    /\ doc = <<>>
    /\ eof = FALSE
    /\ family = "sanitize"
    /\ body = <<>>
    /\ prior = "new"
    /\ reads = 0
    /\ \E t \in Titles : probe = [state |-> "title", title |-> t]

\* replace_invalid_characters(title)
Sanitize ==
    /\ pc = "sanitize"
    /\ probe.state = "title"
    /\ probe' = [state |-> "once", title |-> probe.title,
                 once |-> replace_invalid_characters(probe.title)]
    /\ UNCHANGED <<_disc, _tracks, _info, offset, pc, result, doc, eof,
                   family, body, prior, reads>>

\* replace_invalid_characters applied to its own result
SanitizeAgain ==
    /\ pc = "sanitize"
    /\ probe.state = "once"
    /\ probe' = [state |-> "twice", title |-> probe.title,
                 once |-> probe.once,
                 twice |-> replace_invalid_characters(probe.once)]
    /\ UNCHANGED <<_disc, _tracks, _info, offset, pc, result, doc, eof,
                   family, body, prior, reads>>

NextSanitize ==
    \/ Sanitize
    \/ SanitizeAgain

SpecSanitize == InitSanitize /\ [][NextSanitize]_vars

(***************************************************************************)
(* parse() run to its end on a whole document by a parser that was just    *)
(* constructed: the reference a reused parser is compared with.            *)
(***************************************************************************)

\* parse() from the point `phase` on, rest being the unread lines of the
\* document (readline returns '' once they are used up):
\* [result, disc, tracks] when parse returns or raises.
RECURSIVE ParseFrom(_, _, _, _, _)
ParseFrom(phase, disc, tracks, rest, off) ==
    LET line == IF rest = <<>> THEN <<>> ELSE _readline(Head(rest))
        more == IF rest = <<>> THEN <<>> ELSE Tail(rest)
    IN
    CASE phase = "disc" ->
            IF line = <<>> THEN ParseFrom("first", disc, tracks, more, off)
            ELSE ParseFrom(
                    IF _parse_disc(disc, line).file THEN "first" ELSE "disc",
                    _parse_disc(disc, line).disc, tracks, more, off)
      [] phase = "first" ->
            ParseFrom(IF line = <<>> THEN "endings" ELSE "track", disc,
                      _parse_track_tag(tracks, line).tracks, more, off)
      [] phase = "track" ->
            IF line = <<>> THEN ParseFrom("endings", disc, tracks, more, off)
            ELSE IF _parse_track(tracks, line, off).exc # "none"
            THEN [result |-> _parse_track(tracks, line, off).exc,
                  disc |-> disc,
                  tracks |-> _parse_track(tracks, line, off).tracks]
            ELSE ParseFrom("track", disc,
                           _parse_track(tracks, line, off).tracks, more, off)
      [] OTHER ->
            [result |-> "returned", disc |-> disc,
             tracks |-> _get_unique_titles(_complete_endings(tracks))]

\* CueParser(offset=off).parse(lines)
FreshParse(lines, off) ==
    ParseFrom("disc", _clear.disc, _clear.tracks, lines, off)

(***************************************************************************)
(* Vocabulary of the properties                                            *)
(***************************************************************************)

\* parse() has returned or raised.
Ended == pc = "idle" /\ result # "none"

\* parse() has returned.
Returned == pc = "idle" /\ result = "returned"

\* What info() returns when called now.
InfoReturn == info(_disc, _tracks, _info).ret

\* All the whitespace-separated tokens of a line.
Tokens(line) == split(line, Len(line))

FirstToken(line) == IF Tokens(line) = <<>> THEN <<>> ELSE Tokens(line)[1]

IsTrackLine(raw) == FirstToken(raw) = kw_TRACK
IsFileLine(raw) == FirstToken(raw) = kw_FILE

\* A sheet of non-empty lines with one FILE line, which carries a name and a
\* format token and precedes every TRACK line, each TRACK line carrying an
\* ordinal and a type token.
WellFormedSheet(d) ==
    /\ \A i \in 1..Len(d) : _readline(d[i]) # <<>>
    /\ Cardinality({i \in 1..Len(d) : IsFileLine(d[i])}) = 1
    /\ \A i \in 1..Len(d) : IsFileLine(d[i]) => Len(Tokens(d[i])) >= 3
    /\ \A i \in 1..Len(d) :
          IsTrackLine(d[i]) =>
              /\ Len(Tokens(d[i])) = 3
              /\ \E k \in 1..(i - 1) : IsFileLine(d[k])

\* The ordinals of the TRACK lines of d, in their order.
TrackLineOrdinals(d) ==
    LET t == SelectSeq(d, IsTrackLine) IN
    [k \in 1..Len(t) |-> Tokens(t[k])[2]]

\* The values of the key in the records of a track list.
Column(tracks, key) == [i \in 1..Len(tracks) |-> Get(tracks[i], key)]

\* Every INDEX directive of d carries a timestamp strptime accepts.
IndexTimestampsOk(d) ==
    \A i \in 1..Len(d) :
        (Len(split(_readline(d[i]), 2)) = 3
            /\ split(_readline(d[i]), 2)[1] = kw_INDEX)
        => strptime_MSf(split(_readline(d[i]), 2)[3]).ok

\* line is an INDEX directive with a timestamp; its index number.
IsIndexLine(line) ==
    Len(split(line, 2)) = 3 /\ split(line, 2)[1] = kw_INDEX
IndexNumber(line) == split(line, 2)[2]

\* What the REM rule or else the generic rule stores for a line.
TagOf(line) ==
    IF _parse_comment_tag(EmptyDict, line).ok
    THEN _parse_comment_tag(EmptyDict, line).target
    ELSE _parse_tag(EmptyDict, line).target

\* The normalized timestamps of the non-01 INDEX directives among the body
\* lines of a track (lines[1] is its TRACK line).
IndexEnds(lines, off) ==
    {convert_timestamp(split(lines[k], 2)[3], off).value :
        k \in {j \in 2..Len(lines) :
                 /\ IsIndexLine(lines[j])
                 /\ IndexNumber(lines[j]) # <<"0", "1">>}}

\* The values the REM or generic lines of a track's body give the key END.
TagEnds(lines) ==
    {TagOf(lines[k])[key_end] :
        k \in {j \in 2..Len(lines) : key_end \in DOMAIN TagOf(lines[j])}}

\* Two records read alike under defaultdict(str): a missing key reads ''.
SameRead(a, b) ==
    \A k \in (DOMAIN a) \cup (DOMAIN b) : Get(a, k) = Get(b, k)

\* The record list the line loop builds from the lines of one track alone,
\* `first` being the list after its TRACK line.
RECURSIVE Replay(_, _, _, _)
Replay(first, lines, k, off) ==
    IF k > Len(lines) THEN first
    ELSE Replay(_parse_track(first, lines[k], off).tracks, lines, k + 1, off)

(***************************************************************************)
(* C1.  For every well-formed sheet, parse returns and info() then holds   *)
(* exactly one track record per TRACK line, in the order of the TRACK      *)
(* lines, each with the ordinal of its TRACK line as its `track` value.    *)
(***************************************************************************)
C1_OneRecordPerTrackLine ==
    (Ended /\ WellFormedSheet(doc)) =>
        /\ result = "returned"
        /\ Column(InfoReturn.tracks, key_track) = TrackLineOrdinals(doc)

(***************************************************************************)
(* C2 as stated.  After parse returns on a sheet with at least two tracks, *)
(* every track but the last has an `end`, which is the normalized          *)
(* timestamp of a non-01 INDEX of the following track or else the `start`  *)
(* of the following track.                                                 *)
(***************************************************************************)
C2_EndFromIndexOrNextStart ==
    (Returned /\ Len(_tracks) >= 2) =>
        \A i \in 1..(Len(_tracks) - 1) :
            /\ key_end \in DOMAIN _tracks[i]
            /\ \/ _tracks[i][key_end] \in IndexEnds(body[i + 1], offset)
               \/ _tracks[i][key_end] = Get(_tracks[i + 1], key_start)

(***************************************************************************)
(* C2 as amended.  After parse returns on a sheet with at least two        *)
(* tracks, every track but the last has an `end`, which is one the sheet   *)
(* supplied (a non-01 INDEX of the following track, or a REM or generic    *)
(* line with the key END in the track's own body) or else the `start` of   *)
(* the following track.                                                    *)
(***************************************************************************)
C2_EndSuppliedOrNextStart ==
    (Returned /\ Len(_tracks) >= 2) =>
        \A i \in 1..(Len(_tracks) - 1) :
            /\ key_end \in DOMAIN _tracks[i]
            /\ \/ _tracks[i][key_end] \in IndexEnds(body[i + 1], offset)
               \/ _tracks[i][key_end] \in TagEnds(body[i])
               \/ _tracks[i][key_end] = Get(_tracks[i + 1], key_start)

\* A returned parse in which the first of several tracks has its `end` from
\* the pregap index of the second and not from the second's `start`, and
\* another in which end-time inference supplied it.
C2_Witness ==
    /\ Returned
    /\ Len(_tracks) >= 2
    /\ key_end \in DOMAIN _tracks[1]
    /\ _tracks[1][key_end] \in IndexEnds(body[2], offset)
    /\ _tracks[1][key_end] # Get(_tracks[2], key_start)
    /\ Get(_tracks[2], key_start) # <<>>

(***************************************************************************)
(* C3.  After parse returns, the last track has an `end` only if a line of *)
(* its own body supplied one (no pass adds it), and the record of a        *)
(* single-track sheet reads as its own directives left it.                 *)
(***************************************************************************)
C3_LastTrackEndOnlyIfSupplied ==
    (Returned /\ Len(_tracks) >= 1) =>
        /\ key_end \in DOMAIN _tracks[Len(_tracks)] =>
              _tracks[Len(_tracks)][key_end] \in TagEnds(body[Len(body)])
        /\ Len(_tracks) = 1 =>
              \/ SameRead(_tracks[1],
                          Replay(_parse_track_tag(<<>>, body[1][1]).tracks,
                                 body[1], 2, offset)[1])
              \/ SameRead(_tracks[1],
                          Replay(_parse_track(<<>>, body[1][1], offset).tracks,
                                 body[1], 2, offset)[1])

\* A returned parse of several tracks whose last track has no `end` although
\* it has a `start` and the track before it got an `end`.
C3_Witness ==
    /\ Returned
    /\ Len(_tracks) >= 2
    /\ key_end \notin DOMAIN _tracks[Len(_tracks)]
    /\ key_start \in DOMAIN _tracks[Len(_tracks)]
    /\ key_end \in DOMAIN _tracks[Len(_tracks) - 1]

\* A track's `start` as it reads, '' for a record not in the list.
StartRead(tracks, i) ==
    IF i <= Len(tracks) THEN Get(tracks[i], key_start) ELSE <<>>

\* The line is a primary index, or a REM or generic line with the key START.
IsPrimaryIndex(line) ==
    IsIndexLine(line) /\ IndexNumber(line) = <<"0", "1">>
IsStartTag(line) == key_start \in DOMAIN TagOf(line)

(***************************************************************************)
(* C5 as stated.  A track's `start` is written once, by an INDEX 01 line   *)
(* of the track's own body; no later line and no pass changes it.  Every   *)
(* step that changes how a track's `start` reads is the first write of     *)
(* that key, made by an INDEX 01 line read while the track is the last.    *)
(***************************************************************************)
C5_StartWrittenOnceByIndex01 ==
    [][\A i \in 1..Len(_tracks') :
          StartRead(_tracks', i) # StartRead(_tracks, i) =>
              /\ pc = "track"
              /\ i = Len(_tracks')
              /\ Len(doc') = Len(doc) + 1
              /\ IsPrimaryIndex(_readline(doc'[Len(doc')]))
              /\ i > Len(_tracks) \/ key_start \notin DOMAIN _tracks[i]]_vars

(***************************************************************************)
(* C5 as amended.  A track's `start` is written only by lines of its own   *)
(* body, read while it is the most recent track: each INDEX 01 line, and   *)
(* each REM or generic line with the key START, sets it and overwrites an  *)
(* earlier value.  No line of a later track and no post-processing pass    *)
(* changes how a track's `start` reads.                                    *)
(***************************************************************************)
C5_StartWrittenByOwnBody ==
    [][\A i \in 1..Len(_tracks') :
          StartRead(_tracks', i) # StartRead(_tracks, i) =>
              /\ pc = "track"
              /\ i = Len(_tracks')
              /\ Len(doc') = Len(doc) + 1
              /\ \/ IsPrimaryIndex(_readline(doc'[Len(doc')]))
                 \/ IsStartTag(_readline(doc'[Len(doc')]))]_vars

\* A returned parse whose first track had its INDEX 01 overwritten by a
\* START line of its own body and was then followed by another track.
C5_Witness ==
    /\ Returned
    /\ Len(_tracks) >= 2
    /\ Len(body[1]) >= 3
    /\ IsPrimaryIndex(body[1][2])
    /\ IsStartTag(body[1][3])
    /\ _tracks[1][key_start] = <<"y">>

(***************************************************************************)
(* C6.  Whenever every INDEX directive carries a well-formed timestamp,    *)
(* parse does not raise, whatever the lines and wherever they stand.       *)
(***************************************************************************)
C6_ParseNeverRaises ==
    IndexTimestampsOk(doc) => result \notin {"IndexError", "ValueError"}

(***************************************************************************)
(* C7.  When parse has ended on a parser, whatever that parser parsed      *)
(* before and whether or not info() was called in between, parse ended as  *)
(* on a newly constructed parser with the same offset and info() returns   *)
(* what it returns there.                                                  *)
(***************************************************************************)
C7_ReusedParserAsFresh ==
    Ended =>
        /\ result = FreshParse(doc, offset).result
        /\ InfoReturn = BuildInfo(FreshParse(doc, offset).disc,
                                  FreshParse(doc, offset).tracks)

\* A second document with a track and a disc key has been parsed by a parser
\* whose info() was called after its first document, and info() was called
\* again.
C7_Witness ==
    /\ Ended
    /\ prior = "parsed_info"
    /\ ~_info.none
    /\ Len(_tracks) >= 1
    /\ DOMAIN _disc # {}

\* The whole track section of the scenario has been read after a FILE line.
FullScenario ==
    /\ FilePosition(doc) > 0
    /\ Len(doc) = FilePosition(doc) + Len(ScenarioLines)

ts_0_00_00 ==
    <<"0", "0", ":", "0", "0", ":", "0", "0", ".", "0", "0", "0", "0", "0", "0">>
ts_0_03_15 ==
    <<"0", "0", ":", "0", "3", ":", "1", "5", ".", "0", "0", "0", "0", "0", "0">>
ts_0_03_17 ==
    <<"0", "0", ":", "0", "3", ":", "1", "7", ".", "0", "0", "0", "0", "0", "0">>
ts_3_15_00 ==
    <<"0", "3", ":", "1", "5", ":", "0", "0", ".", "0", "0", "0", "0", "0", "0">>
ts_3_17_00 ==
    <<"0", "3", ":", "1", "7", ":", "0", "0", ".", "0", "0", "0", "0", "0", "0">>

(***************************************************************************)
(* C8 as stated.  With zero offset the scenario sheet yields track 1 with  *)
(* start 00:00:00.000000 and end 03:15:00.000000 and track 2 with start    *)
(* 03:17:00.000000 and no end.                                             *)
(***************************************************************************)
C8_ScenarioAsHours ==
    (Returned /\ FullScenario) =>
        /\ Len(_tracks) = 2
        /\ Get(_tracks[1], key_start) = ts_0_00_00
        /\ Get(_tracks[1], key_end) = ts_3_15_00
        /\ Get(_tracks[2], key_start) = ts_3_17_00
        /\ key_end \notin DOMAIN _tracks[2]

(***************************************************************************)
(* C8 as amended.  With zero offset the scenario sheet yields track 1 with *)
(* start 00:00:00.000000 and end 00:03:15.000000 (from track 2's pregap    *)
(* index) and track 2 with start 00:03:17.000000 and no end: the sheet's   *)
(* timestamps are minutes:seconds:fraction.                                *)
(***************************************************************************)
C8_ScenarioAsMinutes ==
    (Returned /\ FullScenario) =>
        /\ Len(_tracks) = 2
        /\ Get(_tracks[1], key_start) = ts_0_00_00
        /\ Get(_tracks[1], key_end) = ts_0_03_15
        /\ Get(_tracks[2], key_start) = ts_0_03_17
        /\ key_end \notin DOMAIN _tracks[2]

\* The scenario sheet has been parsed under a header of disc-level lines.
C8_Witness ==
    /\ Returned
    /\ FullScenario
    /\ FilePosition(doc) > 1
    /\ offset = offset_zero

\* Some value stands twice in the sequence.
HasRepeat(seq) ==
    \E i, j \in 1..Len(seq) : i < j /\ seq[i] = seq[j]

(***************************************************************************)
(* C4.  Title disambiguation, run on tracks of which at least two have the *)
(* same input title, leaves no two tracks with the same final title.       *)
(***************************************************************************)
C4_FinalTitlesDistinct ==
    [][(pc = "titles" /\ HasRepeat(Column(_tracks, key_title)))
          => ~HasRepeat(Column(_tracks', key_title))]_vars

(***************************************************************************)
(* C9.  Title disambiguation leaves unmodified the title of every track    *)
(* whose input title is not the input title of an earlier track.           *)
(***************************************************************************)
C9_FirstOccurrenceKept ==
    [][pc = "titles" =>
          \A i \in 1..Len(_tracks) :
              (\A j \in 1..(i - 1) :
                  Get(_tracks[j], key_title) # Get(_tracks[i], key_title))
              => Get(_tracks'[i], key_title) = Get(_tracks[i], key_title)]_vars

\* b - a as [sec, usec] with 0 <= usec < 10^6
Elapsed(a, b) ==
    [sec |-> (b.sec - a.sec) + ((b.usec - a.usec) \div 1000000),
     usec |-> (b.usec - a.usec) % 1000000]

(***************************************************************************)
(* C10.  For every timestamp t and every pair of valid offsets o1 < o2,    *)
(* the time denoted by convert_timestamp(t, offset=o2) exceeds the time    *)
(* denoted by convert_timestamp(t, offset=o1) by exactly o2 - o1.          *)
(***************************************************************************)
C10_OffsetAdditive ==
    (/\ probe.state = "converted"
     /\ strptime_MSf(probe.timestamp).ok
     /\ strptime_HMSf(probe.low).ok
     /\ strptime_HMSf(probe.high).ok
     /\ Earlier(strptime_HMSf(probe.low), strptime_HMSf(probe.high)))
    => /\ probe.out_low.ok
       /\ probe.out_high.ok
       /\ Elapsed(strptime_HMSf(probe.out_low.value),
                  strptime_HMSf(probe.out_high.value))
            = Elapsed(strptime_HMSf(probe.low), strptime_HMSf(probe.high))

\* The characters replace_invalid_characters replaces.
ReservedChars == {INVALID_CHARACTERS[k][1] : k \in 1..Len(INVALID_CHARACTERS)}

(***************************************************************************)
(* C11.  Sanitization is idempotent: for every title s,                    *)
(* replace_invalid_characters(replace_invalid_characters(s)) equals        *)
(* replace_invalid_characters(s).                                          *)
(***************************************************************************)
C11_SanitizeIdempotent ==
    probe.state = "twice" => probe.twice = probe.once

\* A title with a reserved character and whitespace at an end has been
\* sanitized twice, the first time changing it.
C11_Witness ==
    /\ probe.state = "twice"
    /\ \E i \in 1..Len(probe.title) : probe.title[i] \in ReservedChars
    /\ Len(probe.title) > 0
    /\ probe.title[1] \in Whitespace
    /\ probe.once # probe.title
    /\ Len(probe.once) > 0

\* parse has read an empty line: a line of the stream that strips to '', or
\* the '' readline returns at the end of the stream.
EmptyRead ==
    eof \/ \E i \in 1..Len(doc) : _readline(doc[i]) = <<>>

(***************************************************************************)
(* C12.  Once parse has read an empty line, in disc scope or in track      *)
(* scope, the next step of parse reads no further line of the stream,      *)
(* changes neither the disc record nor any track record, and hands over to *)
(* the post-processing pass.                                               *)
(***************************************************************************)
C12_EmptyLineEndsParsing ==
    [][(EmptyRead /\ pc \in {"disc", "first", "track"})
          => /\ doc' = doc
             /\ _disc' = _disc
             /\ _tracks' = _tracks
             /\ pc' = "endings"]_vars

\* Line i of d stands after the FILE line and before the first TRACK line.
BetweenFileAndTrack(d, i) ==
    /\ FilePosition(d) > 0
    /\ i > FilePosition(d)
    /\ \A k \in (FilePosition(d) + 1)..i : ~IsTrackLine(d[k])
    /\ \E k \in (i + 1)..Len(d) : IsTrackLine(d[k])

(***************************************************************************)
(* C13.  When parse has ended, every REM or generic `KEY value` line that  *)
(* stands after the FILE line and before the first TRACK line has its key, *)
(* lower-cased, in the disc record, with the value of such a line.         *)
(***************************************************************************)
C13_LinesAfterFileStoredOnDisc ==
    Ended =>
        \A i \in 1..Len(doc) :
            (/\ BetweenFileAndTrack(doc, i)
             /\ ~IsIndexLine(_readline(doc[i])))
            => \A key \in DOMAIN TagOf(_readline(doc[i])) :
                  /\ key \in DOMAIN _disc
                  /\ \E k \in 1..Len(doc) :
                        /\ key \in DOMAIN TagOf(_readline(doc[k]))
                        /\ _disc[key] = TagOf(_readline(doc[k]))[key]

\* line begins with FILE and holds at least one more token.
IsFileDirective(line) == IsFileLine(line) /\ Len(Tokens(line)) >= 2

(***************************************************************************)
(* C14.  Every line beginning with FILE and holding at least one more      *)
(* token ends the disc-scope phase when disc-scope parsing reads it, and   *)
(* every TRACK line read after such a line appends a track record and      *)
(* leaves the disc record as it is.                                        *)
(***************************************************************************)
C14_FileLineEndsDiscScope ==
    [][Len(doc') = Len(doc) + 1 =>
          /\ (pc = "disc" /\ IsFileDirective(_readline(doc'[Len(doc')])))
                => pc' = "first"
          /\ (/\ IsTrackLine(_readline(doc'[Len(doc')]))
              /\ \E k \in 1..Len(doc) : IsFileDirective(_readline(doc[k])))
                => /\ Len(_tracks') = Len(_tracks) + 1
                   /\ _disc' = _disc]_vars

(***************************************************************************)
(* C15.  An INDEX line whose index number is not 01, read in track scope   *)
(* while fewer than two tracks exist, is dropped: parse raises nothing and *)
(* the disc record and every track record stay as they are.                *)
(***************************************************************************)
C15_EarlyPregapDropped ==
    [][(/\ pc = "track"
        /\ Len(_tracks) < 2
        /\ Len(doc') = Len(doc) + 1
        /\ IsIndexLine(_readline(doc'[Len(doc')]))
        /\ ~IsPrimaryIndex(_readline(doc'[Len(doc')])))
          => /\ _tracks' = _tracks
             /\ _disc' = _disc
             /\ result' = "none"]_vars

\* line is an INDEX directive with an index number other than 01.
IsSecondaryIndex(line) == IsIndexLine(line) /\ ~IsPrimaryIndex(line)

\* The position of the last such directive among the body lines of a track
\* (lines[1] is its TRACK line), 0 if there is none.
LastSecondaryIndex(lines) ==
    IF \E j \in 2..Len(lines) : IsSecondaryIndex(lines[j])
    THEN CHOOSE j \in 2..Len(lines) :
            /\ IsSecondaryIndex(lines[j])
            /\ \A k \in (j + 1)..Len(lines) : ~IsSecondaryIndex(lines[k])
    ELSE 0

(***************************************************************************)
(* C16.  If the body of track i+1 holds a non-01 INDEX directive, then     *)
(* when parse returns track i's `end` is the normalized timestamp of the   *)
(* last such directive, not track i+1's `start`; and reading a non-01      *)
(* INDEX directive while two tracks or more exist leaves the most recent   *)
(* track record as it is.                                                  *)
(***************************************************************************)
C16_PregapEndSurvives ==
    [][/\ pc = "titles" =>
            \A i \in 1..(Len(_tracks') - 1) :
                LastSecondaryIndex(body[i + 1]) # 0 =>
                    /\ key_end \in DOMAIN _tracks'[i]
                    /\ _tracks'[i][key_end] =
                          convert_timestamp(
                              split(body[i + 1][LastSecondaryIndex(body[i + 1])],
                                    2)[3],
                              offset).value
       /\ (/\ pc = "track"
           /\ Len(_tracks) >= 2
           /\ Len(doc') = Len(doc) + 1
           /\ IsSecondaryIndex(_readline(doc'[Len(doc')])))
            => /\ Len(_tracks') = Len(_tracks)
               /\ _tracks'[Len(_tracks)] = _tracks[Len(_tracks)]]_vars

\* parse has returned two tracks or more; the first had an END of its own,
\* the second holds two different secondary indexes and then its primary
\* index, and the first track's end is neither its own END nor the second
\* track's start.
C16_Witness ==
    /\ Returned
    /\ Len(_tracks) >= 2
    /\ body[1] = <<line_track1, line_rem_end>>
    /\ body[2] = <<line_track1, line_index00, line_index02, line_index01>>
    /\ key_end \in DOMAIN _tracks[1]
    /\ _tracks[1][key_end] # Get(_tracks[2], key_start)
    /\ _tracks[1][key_end] # <<"x">>

\* The number of tracks before the i-th with the title of the i-th.
EarlierSameTitle(tracks, i) ==
    Cardinality({j \in 1..(i - 1) :
                    Get(tracks[j], key_title) = Get(tracks[i], key_title)})

(***************************************************************************)
(* C17.  Title disambiguation gives every track whose input title T stands *)
(* on k >= 1 earlier tracks the final title `T (<performer> ver.)` when    *)
(* the track carries a performer, and `T (ver. k)` otherwise, whether or   *)
(* not the earlier tracks carry a performer.                               *)
(***************************************************************************)
C17_TitleRewritingRule ==
    [][pc = "titles" =>
          \A i \in 1..Len(_tracks) :
              EarlierSameTitle(_tracks, i) >= 1 =>
                  Get(_tracks'[i], key_title) =
                      IF key_performer \in DOMAIN _tracks[i]
                      THEN PerformerVersion(Get(_tracks[i], key_title),
                                            _tracks[i][key_performer])
                      ELSE NumberedVersion(Get(_tracks[i], key_title),
                                           EarlierSameTitle(_tracks, i))]_vars

\* Records a and b hold the same keys with the same values, `key` apart.
SameButFor(a, b, key) ==
    /\ (DOMAIN a) \ {key} = (DOMAIN b) \ {key}
    /\ \A k \in (DOMAIN a) \ {key} : a[k] = b[k]

(***************************************************************************)
(* C18.  Once at least one track exists, a line read in track scope that   *)
(* is no TRACK line leaves the disc record as it is and changes one track  *)
(* record at most: an INDEX 01 line only the `start` of the most recent    *)
(* record, a non-01 INDEX line only the `end` of the record before the     *)
(* most recent one, a REM or generic line only the most recent record.     *)
(***************************************************************************)
C18_DirectiveIsolation ==
    [][(/\ pc = "track"
        /\ Len(_tracks) >= 1
        /\ Len(doc') = Len(doc) + 1
        /\ Len(_tracks') = Len(_tracks))
          => /\ _disc' = _disc
             /\ \A j \in 1..Len(_tracks) :
                   IF IsPrimaryIndex(_readline(doc'[Len(doc')]))
                   THEN IF j = Len(_tracks)
                        THEN SameButFor(_tracks'[j], _tracks[j], key_start)
                        ELSE _tracks'[j] = _tracks[j]
                   ELSE IF IsSecondaryIndex(_readline(doc'[Len(doc')]))
                   THEN IF j = Len(_tracks) - 1
                        THEN SameButFor(_tracks'[j], _tracks[j], key_end)
                        ELSE _tracks'[j] = _tracks[j]
                   ELSE j < Len(_tracks) => _tracks'[j] = _tracks[j]]_vars

\* a is an initial part of b
IsPrefix(a, b) ==
    /\ Len(a) <= Len(b)
    /\ \A i \in 1..Len(a) : a[i] = b[i]

(***************************************************************************)
(* C19.  For every finite input stream, parse, once called, terminates     *)
(* (returns or raises); the lines it has read are always an initial part   *)
(* of the stream, each read once and in order; and its reads number at     *)
(* most the lines of the stream plus two reads at the end of the stream.   *)
(***************************************************************************)
C19_ParseTerminatesReadingForward ==
    /\ [](/\ IsPrefix(doc, probe.lines)
          /\ reads <= Len(probe.lines) + 2)
    /\ (pc = "disc") ~> Ended

\* parse has returned after reading a whole stream of several lines and
\* the end of the stream.
C19_Witness ==
    /\ Returned
    /\ family = "stream"
    /\ Len(probe.lines) >= 3
    /\ doc = probe.lines
    /\ reads = Len(probe.lines) + 1

====
